---- MODULE Spec2Model ----
(***************************************************************************)
(* Model of graph_network/Node.py: connectivity nodes with symmetric       *)
(* neighbor sets and a shared, mutable component set (the cc field).       *)
(*                                                                         *)
(* Python set objects have identity.  A cc set is modelled as an object    *)
(* id (cc[n]) and the contents of that object (heap[id]); two nodes hold   *)
(* "the same set object" iff their ids are equal.  Which id names an       *)
(* object is immaterial, so at the end of each call the objects in use are *)
(* renamed to the least node that refers to them and the others, which are *)
(* garbage, are cleared.                                                   *)
(*                                                                         *)
(* Three programs use the nodes.  Spec: all nodes constructed, then calls  *)
(* of add_node, update and remove_node, each call one step.  SpecBuild:    *)
(* the same with the nodes constructed by the run, with or without peers.  *)
(* SpecGraph: the Graph wrapper of Graph.py.  A fourth specification,      *)
(* FairSteps, runs one call statement by statement, one step per iteration *)
(* of its while loops.                                                     *)
(***************************************************************************)
EXTENDS Integers, FiniteSets, Sequences, TLC

\* Number of Node objects that exist (all constructed without peers).
NumNodes == 3

\* Number of calls made on the nodes in one run.
MaxOps == 2

Nodes == 1..NumNodes

\* Object ids for set objects: one more than the nodes, so that a new set
\* can be allocated while every node still refers to an older one.
Ids == 1..(NumNodes + 1)

VARIABLES
    neighbors,  \* neighbors[n]: the set n.neighbors
    cc,         \* cc[n]: the id of the set object n.cc refers to
    heap,       \* heap[i]: the members of set object i
    last,       \* the most recent call: operation, receiver, argument, the
                \* receiver's neighbors when it was called, and its outcome
    raised,     \* TRUE once some call has ended by raising an exception
                \* (the caller may catch it and go on calling)
    ops,        \* number of calls made so far
    time,       \* time[n]: the field n.time, as seen from the clock: "now"
                \* when the most recent call set it, "earlier" otherwise
    nodes,      \* the Node objects constructed so far (with Graph: the keys
                \* of Graph.nodes, each key naming the node it maps to)
    returned,   \* the value the most recent Graph call returned, tagged with
                \* its kind: <<"None">>, <<"Node", n>>, <<"bool", b>> or
                \* <<"list", l>>
    walk        \* the call in progress when calls run statement by statement:
                \* its position, queue, visited set and the like

vars == <<neighbors, cc, heap, last, raised, ops, time, nodes, returned, walk>>

----------------------------------------------------------------------------
\* Helpers

Min(S) == CHOOSE x \in S : \A y \in S : x <= y

\* Iteration over a Python set, as a sequence (here in ascending order; the
\* results of the loops below do not depend on the order).
RECURSIVE Iter(_)
Iter(S) == IF S = {} THEN <<>> ELSE <<Min(S)>> \o Iter(S \ {Min(S)})

\* A new set object: an id no node refers to.
Fresh(c) == Min(Ids \ {c[n] : n \in Nodes})

\* The name of set object i once the call is over: the least node holding it.
Holder(c, i) == Min({n \in Nodes : c[n] = i})

\* The program state as a record, so that operations are functions on it.
State(nb, c, h) == [neighbors |-> nb, cc |-> c, heap |-> h]

Current == State(neighbors, cc, heap)

\* Garbage collection and renaming of the set objects.
Collected(s) ==
    State(s.neighbors,
          [n \in Nodes |-> Holder(s.cc, s.cc[n])],
          [i \in Ids |-> IF i \in Nodes /\ Holder(s.cc, s.cc[i]) = i
                         THEN s.heap[s.cc[i]] ELSE {}])

\* The time fields once the clock has moved on: a call that sets no time
\* field leaves every one of them older than the call.
Aged == [n \in Nodes |-> "earlier"]

\* No call is in progress.
NoWalk ==
    [pc |-> "idle", self |-> 0, q |-> <<>>, visited |-> {}, comp |-> {},
     todo |-> <<>>, removed |-> {}, assigned |-> [n \in Nodes |-> 0],
     object |-> 0, sharers |-> {}, members |-> {}]

----------------------------------------------------------------------------
\* Node.__init__ without peers: neighbors = set(), cc = {self}

NodeInit(n) == [neighbors |-> {}, cc |-> n, heap |-> {n}]

----------------------------------------------------------------------------
\* Node.add_node

\* Variant of AddEdges: self.cc ^= n.cc (symmetric difference) for |=
RECURSIVE AddEdgesXor(_, _, _)
AddEdgesXor(s, self, todo) ==
    IF todo = <<>> THEN s
    ELSE LET n  == Head(todo)
             nb == [s.neighbors EXCEPT ![self] = @ \cup {n}]
             a  == s.heap[s.cc[self]]
             b  == s.heap[s.cc[n]]
             s1 == State([nb EXCEPT ![n] = @ \cup {self}],
                         s.cc,
                         [s.heap EXCEPT ![s.cc[self]] = (a \ b) \cup (b \ a)])
         IN  AddEdgesXor(s1, self, Tail(todo))

\* Lines 57-60: for n in neighbors: add both edges, self.cc |= n.cc (in place)
RECURSIVE AddEdges(_, _, _)
AddEdges(s, self, todo) ==
    IF todo = <<>> THEN s
    ELSE LET n  == Head(todo)
             nb == [s.neighbors EXCEPT ![self] = @ \cup {n}]
             s1 == State([nb EXCEPT ![n] = @ \cup {self}],
                         s.cc,
                         [s.heap EXCEPT ![s.cc[self]] = @ \cup s.heap[s.cc[n]]])
         IN  AddEdges(s1, self, Tail(todo))

\* Lines 64-70: the traversal; a node is marked visited when it is dequeued.
RECURSIVE AddWalk(_, _, _, _)
AddWalk(s, self, q, visited) ==
    IF q = <<>> THEN s
    ELSE LET node == Head(q)
             v1   == visited \cup {node}
             s1   == State(s.neighbors,
                           [s.cc EXCEPT ![node] = s.cc[self]],
                           s.heap)
         IN  AddWalk(s1, self, Tail(q) \o Iter(s.neighbors[node] \ v1), v1)

AddNodeEffect(s, self, peers) ==
    Collected(AddWalk(AddEdges(s, self, Iter(peers)), self, <<self>>, {self}))

add_node(self, peers) ==
    /\ ops < MaxOps
    /\ self \in nodes /\ peers \subseteq nodes
    /\ ops' = ops + 1
    /\ \E s \in {AddNodeEffect(Current, self, peers)} :
          /\ neighbors' = s.neighbors
          /\ cc' = s.cc
          /\ heap' = s.heap
    /\ last' = [op |-> "add_node", self |-> self, peers |-> peers,
                old |-> neighbors[self], outcome |-> "ok"]
    /\ time' = Aged
    /\ UNCHANGED <<raised, nodes, returned, walk>>

----------------------------------------------------------------------------
\* Node.update

\* Variant of bfs: the neighbors found are marked visited but never enqueued.
bfsNoAppend(nb, q, comp, visited) ==
    [comp |-> comp \cup {Head(q)}, visited |-> visited \cup nb[Head(q)]]

\* Lines 27-39: bfs(start, visited_global); returns comp and the grown
\* visited_global.  Called with q = <<start>> and start already in visited.
RECURSIVE bfs(_, _, _, _)
bfs(nb, q, comp, visited) ==
    IF q = <<>> THEN [comp |-> comp, visited |-> visited]
    ELSE LET node == Head(q)
             new  == nb[node] \ visited
         IN  bfs(nb, Tail(q) \o Iter(new), comp \cup {node}, visited \cup new)

\* Variant of AssignComp: comp is added to the set its first node holds,
\* which the nodes of comp keep or get, instead of being a new set.
AssignCompInPlace(s, comp) ==
    LET f == s.cc[Min(comp)]
    IN  State(s.neighbors,
              [n \in Nodes |-> IF n \in comp THEN f ELSE s.cc[n]],
              [s.heap EXCEPT ![f] = @ \cup comp])

\* Lines 44-45 and 50-51: for node in comp: node.cc = comp (comp a new set)
AssignComp(s, comp) ==
    LET f == Fresh(s.cc)
    IN  State(s.neighbors,
              [n \in Nodes |-> IF n \in comp THEN f ELSE s.cc[n]],
              [s.heap EXCEPT ![f] = comp])

\* Variant of UpdateRemoved: the removed neighbors are never traversed again.
UpdateRemovedSkipped(s, todo, visited) == s

\* Lines 47-51: one traversal per removed neighbor not yet visited
RECURSIVE UpdateRemoved(_, _, _)
UpdateRemoved(s, todo, visited) ==
    IF todo = <<>> THEN s
    ELSE LET nbr == Head(todo)
         IN  IF nbr \in visited
             THEN UpdateRemoved(s, Tail(todo), visited)
             ELSE LET r == bfs(s.neighbors, <<nbr>>, {}, visited \cup {nbr})
                  IN  UpdateRemoved(AssignComp(s, r.comp), Tail(todo), r.visited)

\* Variant of UpdateEdges: the removed neighbors keep self as a neighbor.
UpdateEdgesOneSided(nb, self, new) ==
    LET added == new \ nb[self]
        nb1   == [n \in Nodes |-> IF n \in added THEN nb[n] \cup {self}
                                  ELSE nb[n]]
    IN  [nb1 EXCEPT ![self] = new]

\* Lines 16-25: the symmetric edges of removed and added, then self.neighbors
UpdateEdges(nb, self, new) ==
    LET removed == nb[self] \ new
        added   == new \ nb[self]
        nb1     == [n \in Nodes |-> IF n \in removed THEN nb[n] \ {self}
                                    ELSE IF n \in added THEN nb[n] \cup {self}
                                    ELSE nb[n]]
    IN  [nb1 EXCEPT ![self] = new]

\* Variant of UpdateEffect: the new neighbors are added to the old ones.
UpdateEffectKeepOld(s, self, new) ==
    LET all == s.neighbors[self] \cup new
        s1  == State(UpdateEdges(s.neighbors, self, all), s.cc, s.heap)
        r   == bfs(s1.neighbors, <<self>>, {}, {self})
    IN  Collected(AssignComp(s1, r.comp))

UpdateEffect(s, self, new) ==
    LET removed == s.neighbors[self] \ new
        s1      == State(UpdateEdges(s.neighbors, self, new), s.cc, s.heap)
        r       == bfs(s1.neighbors, <<self>>, {}, {self})
    IN  Collected(UpdateRemoved(AssignComp(s1, r.comp), Iter(removed), r.visited))

update(self, new) ==
    /\ ops < MaxOps
    /\ self \in nodes /\ new \subseteq nodes
    /\ ops' = ops + 1
    /\ \E s \in {UpdateEffect(Current, self, new)} :
          /\ neighbors' = s.neighbors
          /\ cc' = s.cc
          /\ heap' = s.heap
    /\ last' = [op |-> "update", self |-> self, peers |-> new,
                old |-> neighbors[self], outcome |-> "ok"]
    /\ time' = [Aged EXCEPT ![self] = "now"]
    /\ UNCHANGED <<raised, nodes, returned, walk>>

----------------------------------------------------------------------------
\* Node.remove_node

\* Lines 73-78: drop the edges, self.neighbors = set(), self.cc = set()
RemoveEdges(s, self) ==
    LET nbrs == s.neighbors[self]
        nb1  == [n \in Nodes |-> IF n \in nbrs THEN s.neighbors[n] \ {self}
                                 ELSE s.neighbors[n]]
        f    == Fresh(s.cc)
    IN  State([nb1 EXCEPT ![self] = {}],
              [s.cc EXCEPT ![self] = f],
              [s.heap EXCEPT ![f] = {}])

\* Lines 94-98: the first former neighbor is never in the empty
\* visited_global, so recompute_cc(nbr) is called; the helper takes two
\* arguments and the call passes one, which raises TypeError before any
\* component is recomputed.
RemoveOutcome(s, self) ==
    IF s.neighbors[self] = {} THEN "ok" ELSE "TypeError"

RemoveNodeEffect(s, self) == Collected(RemoveEdges(s, self))

remove_node(self) ==
    /\ ops < MaxOps
    /\ self \in nodes
    /\ ops' = ops + 1
    /\ \E s \in {RemoveNodeEffect(Current, self)} :
          /\ neighbors' = s.neighbors
          /\ cc' = s.cc
          /\ heap' = s.heap
    /\ last' = [op |-> "remove_node", self |-> self, peers |-> {},
                old |-> neighbors[self],
                outcome |-> RemoveOutcome(Current, self)]
    /\ raised' = (raised \/ RemoveOutcome(Current, self) /= "ok")
    /\ time' = Aged
    /\ UNCHANGED <<nodes, returned, walk>>

----------------------------------------------------------------------------
\* The program: nodes are constructed isolated, then any call on any node.
\* (A call is made on a node that exists, with peers that exist.)

Init ==
    /\ neighbors = [n \in Nodes |-> NodeInit(n).neighbors]
    /\ cc = [n \in Nodes |-> NodeInit(n).cc]
    /\ heap = [i \in Ids |-> IF i \in Nodes THEN NodeInit(i).heap ELSE {}]
    /\ last = [op |-> "none", self |-> 0, peers |-> {}, old |-> {},
               outcome |-> "ok"]
    /\ raised = FALSE
    /\ ops = 0
    /\ time = Aged
    /\ nodes = Nodes
    /\ returned = <<"None">>
    /\ walk = NoWalk

Next ==
    \/ \E self \in Nodes, peers \in SUBSET Nodes : add_node(self, peers)
    \/ \E self \in Nodes, new \in SUBSET Nodes : update(self, new)
    \/ \E self \in Nodes : remove_node(self)

Spec == Init /\ [][Next]_vars

TypeOK ==
    /\ neighbors \in [Nodes -> SUBSET Nodes]
    /\ cc \in [Nodes -> Ids]
    /\ heap \in [Ids -> SUBSET Nodes]
    /\ raised \in BOOLEAN
    /\ ops \in Nat
    /\ time \in [Nodes -> {"now", "earlier"}]
    /\ nodes \subseteq Nodes

----------------------------------------------------------------------------
\* Graph notions the properties are stated with

\* The nodes reachable from the nodes of S over the edges of nb (S included).
RECURSIVE Closure(_, _)
Closure(nb, S) ==
    LET T == S \cup UNION {nb[n] : n \in S}
    IN  IF T = S THEN S ELSE Closure(nb, T)

Reachable(nb, a) == Closure(nb, {a})

\* The members of the set object n.cc
Members(n) == heap[cc[n]]

\* C1. Component soundness: as long as every call made so far has completed
\* (none has raised), two nodes hold the same cc set object if and only if a
\* path of neighbors edges joins them.
ComponentSoundness ==
    ~raised =>
        \A a, b \in Nodes : (cc[a] = cc[b]) <=> (b \in Reachable(neighbors, a))

\* An update has just cut its receiver off from one neighbor and kept
\* another, with no call having raised.
ComponentSoundnessWitness ==
    /\ ~raised
    /\ last.op = "update"
    /\ \E a \in last.old \ (last.peers \cup {last.self}) :
          cc[a] /= cc[last.self]
    /\ \E b \in (last.old \cap last.peers) \ {last.self} :
          cc[b] = cc[last.self]

\* C2. Component partition: every node is a member of its own cc set, and
\* distinct cc set objects have no member in common.
ComponentPartition ==
    /\ \A a \in Nodes : a \in Members(a)
    /\ \A a, b \in Nodes : cc[a] /= cc[b] => Members(a) \cap Members(b) = {}

\* C3. Symmetry: B is in A.neighbors if and only if A is in B.neighbors.
Symmetry ==
    \A a, b \in Nodes : (b \in neighbors[a]) <=> (a \in neighbors[b])

\* A call that passed the receiver itself among its peers has removed one
\* edge of the receiver and added another.
SymmetryWitness ==
    /\ last.op = "update"
    /\ last.self \in last.peers
    /\ last.old \ last.peers /= {}
    /\ last.peers \ (last.old \cup {last.self}) /= {}

\* C4. Connect postcondition: after add_node on self, every node reachable
\* from self holds the set object self holds, and that set has exactly the
\* nodes reachable from self as members.
ConnectPostcondition ==
    last.op = "add_node" =>
        LET R == Reachable(neighbors, last.self)
        IN  /\ \A n \in R : cc[n] = cc[last.self]
            /\ Members(last.self) = R

\* C5. Disconnect postcondition: after remove_node on self, self.neighbors is
\* empty, no neighbors set contains self, and self.cc is exactly {self}.
DisconnectPostcondition ==
    last.op = "remove_node" =>
        /\ neighbors[last.self] = {}
        /\ \A n \in Nodes : last.self \notin neighbors[n]
        /\ Members(last.self) = {last.self}

\* C6. Split correctness: after remove_node on a node that had neighbors,
\* each former neighbor holds a set whose members are exactly the nodes still
\* reachable from it, and exactly those nodes hold that same set object.
SplitCorrectness ==
    (last.op = "remove_node" /\ last.old /= {}) =>
        \A n \in last.old \ {last.self} :
            /\ Members(n) = Reachable(neighbors, n)
            /\ \A m \in Nodes :
                  (cc[m] = cc[n]) <=> (m \in Reachable(neighbors, n))

\* C7. Totality: no call ends by raising an error.
Totality == last.outcome = "ok"

\* C8. Idempotent removal: remove_node on a node with no neighbors and
\* component {self} raises nothing and leaves every neighbors set and the
\* members of every node's component as they were.
IdempotentRemoval ==
    [][(/\ last'.op = "remove_node"
        /\ neighbors[last'.self] = {}
        /\ Members(last'.self) = {last'.self})
       => (/\ last'.outcome = "ok"
           /\ neighbors' = neighbors
           /\ \A n \in Nodes : heap'[cc'[n]] = heap[cc[n]])]_vars

\* The connected component of every node in the graph nb
ComponentsOf(nb) == [n \in Nodes |-> Reachable(nb, n)]

\* The data-model invariants of a state s: symmetric neighbors, and each
\* node's set has exactly the nodes reachable from it as members and is
\* shared with exactly those nodes.
DataModelInvariants(s) ==
    \E comp \in {ComponentsOf(s.neighbors)} :
        /\ \A a, b \in Nodes : (b \in s.neighbors[a]) <=> (a \in s.neighbors[b])
        /\ \A a \in Nodes : s.heap[s.cc[a]] = comp[a]
        /\ \A a, b \in Nodes : (s.cc[a] = s.cc[b]) <=> (b \in comp[a])

\* Removal of the edges between a and the nodes of R
EdgesRemoved(nb, a, R) ==
    [n \in Nodes |-> IF n = a THEN nb[a] \ R
                     ELSE IF n \in R THEN nb[n] \ {a}
                     ELSE nb[n]]

\* Addition of the edges between a and the nodes of A
EdgesAdded(nb, a, A) ==
    [n \in Nodes |-> IF n = a THEN nb[a] \cup A
                     ELSE IF n \in A THEN nb[n] \cup {a}
                     ELSE nb[n]]

\* Component repair: the state with edges nb in which every connected
\* component (comp) has one set object of its own, holding its nodes.
RepairedWith(nb, comp) ==
    State(nb,
          [n \in Nodes |-> Min(comp[n])],
          [i \in Ids |-> IF i \in Nodes /\ Min(comp[i]) = i
                         THEN comp[i] ELSE {}])

Repaired(nb) == CHOOSE s \in {RepairedWith(nb, ComponentsOf(nb))} : TRUE

\* C9. Update equivalence: from a state satisfying the data-model invariants,
\* update(A, S) ends in the state reached by removing the edges from A to
\* old \ S and adding the edges from A to S \ old with component repair, in
\* either order (the additions made by add_node, which repairs components).
UpdateEquivalence ==
    [][(last'.op = "update" /\ DataModelInvariants(Current))
       => \A a \in {last'.self}, post \in {State(neighbors', cc', heap')} :
          \A removed \in {neighbors[a] \ last'.peers},
             added \in {last'.peers \ neighbors[a]} :
          \A cut \in {EdgesRemoved(neighbors, a, removed)},
             joined \in {AddNodeEffect(Current, a, added).neighbors} :
          \A cutFirst \in {Repaired(cut)},
             addFirst \in {EdgesRemoved(joined, a, removed)},
             both \in {EdgesAdded(cut, a, added)} :
              /\ post = AddNodeEffect(cutFirst, a, added)
              /\ post = Repaired(addFirst)
              /\ post = Repaired(both)]_vars

\* An update made in a state reached from the initial one by one call that
\* made edges (so the invariants held) has removed an edge and added one.
UpdateEquivalenceWitness ==
    /\ last.op = "update"
    /\ ops = 2
    /\ last.old \ last.peers /= {}
    /\ last.peers \ last.old /= {}

\* C10. Connect idempotence: from a state satisfying the invariants, after
\* A.add_node({B}) a second A.add_node({B}) changes no neighbors set and no
\* component set (same members, same sharing).
ConnectIdempotence ==
    [][(/\ last'.op = "add_node"
        /\ Cardinality(last'.peers) = 1
        /\ DataModelInvariants(Current))
       => AddNodeEffect(State(neighbors', cc', heap'), last'.self, last'.peers)
              = State(neighbors', cc', heap')]_vars

\* The first call of a run was A.add_node({B}) with B another node, which
\* joined two components.
ConnectIdempotenceWitness ==
    /\ last.op = "add_node"
    /\ ops = 1
    /\ \E b \in Nodes \ {last.self} :
          /\ last.peers = {b}
          /\ cc[b] = cc[last.self]
          /\ Members(b) = {last.self, b}

----------------------------------------------------------------------------
\* One call, statement by statement.  The for loops over a finite set are
\* one step; each iteration of a while loop is a step of its own.  No set
\* object is renamed here, so object ids keep their identity during the call.

\* Every symmetric neighbor graph, self-loops included: node by node,
\* update(n, g[n]) builds it from isolated nodes.
SymmetricGraphs ==
    {g \in [Nodes -> SUBSET Nodes] :
        \A a, b \in Nodes : (b \in g[a]) <=> (a \in g[b])}

InitSteps ==
    /\ \E g \in SymmetricGraphs : \E s \in {Repaired(g)} :
          /\ neighbors = s.neighbors
          /\ cc = s.cc
          /\ heap = s.heap
    /\ last = [op |-> "none", self |-> 0, peers |-> {}, old |-> {},
               outcome |-> "ok"]
    /\ raised = FALSE
    /\ ops = 0
    /\ time = Aged
    /\ nodes = Nodes
    /\ returned = <<"None">>
    /\ walk = NoWalk

\* Variant of AddWalkIter: the dequeued node is not marked visited.
AddWalkIterUnmarked(nb, q, visited) ==
    [q |-> Tail(q) \o Iter(nb[Head(q)] \ visited), visited |-> visited]

\* Lines 65-70: one iteration of the while loop of add_node
AddWalkIter(nb, q, visited) ==
    LET node == Head(q)
        v1   == visited \cup {node}
    IN  [q |-> Tail(q) \o Iter(nb[node] \ v1), visited |-> v1]

\* Lines 57-63 of add_node: the edges and the union, then the queue is set up
BeginAddNode(self, peers) ==
    /\ walk.pc = "idle"
    /\ \E s \in {AddEdges(Current, self, Iter(peers))} :
          /\ neighbors' = s.neighbors
          /\ cc' = s.cc
          /\ heap' = s.heap
    /\ walk' = [NoWalk EXCEPT !.pc = "add_walk", !.self = self,
                              !.q = <<self>>, !.visited = {self},
                              !.object = cc[self],
                              !.sharers = {n \in Nodes : cc[n] = cc[self]},
                              !.members = heap[cc[self]]]
    /\ last' = [op |-> "add_node", self |-> self, peers |-> peers,
                old |-> neighbors[self], outcome |-> "ok"]
    /\ ops' = ops + 1
    /\ time' = Aged
    /\ UNCHANGED <<raised, nodes, returned>>

\* Variant of AddWalkStep: node.cc = set(self.cc), a copy, for node.cc = self.cc
AddWalkStepCopy ==
    /\ walk.pc = "add_walk"
    /\ walk.q /= <<>>
    /\ \E r \in {AddWalkIter(neighbors, walk.q, walk.visited)} :
          walk' = [walk EXCEPT !.q = r.q, !.visited = r.visited]
    /\ \E f \in {Fresh(cc)} :
          /\ cc' = [cc EXCEPT ![Head(walk.q)] = f]
          /\ heap' = [heap EXCEPT ![f] = heap[cc[walk.self]]]
    /\ UNCHANGED <<neighbors, last, raised, ops, time, nodes, returned>>

\* Lines 64-70: while q: popleft, mark visited, node.cc = self.cc, enqueue
AddWalkStep ==
    /\ walk.pc = "add_walk"
    /\ walk.q /= <<>>
    /\ \E r \in {AddWalkIter(neighbors, walk.q, walk.visited)} :
          walk' = [walk EXCEPT !.q = r.q, !.visited = r.visited]
    /\ cc' = [cc EXCEPT ![Head(walk.q)] = cc[walk.self]]
    /\ UNCHANGED <<neighbors, heap, last, raised, ops, time, nodes, returned>>

\* Line 64 with an empty queue: add_node returns
AddWalkExit ==
    /\ walk.pc = "add_walk"
    /\ walk.q = <<>>
    /\ walk' = [walk EXCEPT !.pc = "done"]
    /\ UNCHANGED <<neighbors, cc, heap, last, raised, ops, time, nodes,
                   returned>>

\* Lines 33-38: one iteration of the while loop of bfs
BfsIter(nb, q, comp, visited) ==
    LET node == Head(q)
        new  == nb[node] \ visited
    IN  [q |-> Tail(q) \o Iter(new), comp |-> comp \cup {node},
         visited |-> visited \cup new]

\* Variant of NextStart: every removed neighbor is traversed, visited or not.
NextStartAny(todo, visited) == todo

\* Lines 47-48: the removed neighbors still to look at, from the first one
\* that is not in visited_global
RECURSIVE NextStart(_, _)
NextStart(todo, visited) ==
    IF todo = <<>> THEN <<>>
    ELSE IF Head(todo) \in visited THEN NextStart(Tail(todo), visited)
    ELSE todo

\* Lines 13-30 and 41-43 of update: the edges, then bfs(self, set()) starts
BeginUpdate(self, new) ==
    /\ walk.pc = "idle"
    /\ neighbors' = UpdateEdges(neighbors, self, new)
    /\ walk' = [NoWalk EXCEPT !.pc = "bfs", !.self = self,
                              !.q = <<self>>, !.visited = {self},
                              !.todo = Iter(neighbors[self] \ new),
                              !.removed = neighbors[self] \ new]
    /\ last' = [op |-> "update", self |-> self, peers |-> new,
                old |-> neighbors[self], outcome |-> "ok"]
    /\ ops' = ops + 1
    /\ time' = [Aged EXCEPT ![self] = "now"]
    /\ UNCHANGED <<cc, heap, raised, nodes, returned>>

\* Lines 32-38: while q: popleft, comp.add, mark and enqueue the neighbors
BfsStep ==
    /\ walk.pc = "bfs"
    /\ walk.q /= <<>>
    /\ \E r \in {BfsIter(neighbors, walk.q, walk.comp, walk.visited)} :
          walk' = [walk EXCEPT !.q = r.q, !.comp = r.comp,
                               !.visited = r.visited]
    /\ UNCHANGED <<neighbors, cc, heap, last, raised, ops, time, nodes,
                   returned>>

\* Lines 39 and 44-51: bfs returns comp, every node of comp gets it as its
\* cc, and the loop over removed starts the next bfs or update returns.
BfsReturn ==
    /\ walk.pc = "bfs"
    /\ walk.q = <<>>
    /\ \E s \in {AssignComp(Current, walk.comp)} :
          /\ cc' = s.cc
          /\ heap' = s.heap
    /\ \E rest \in {NextStart(walk.todo, walk.visited)} :
          walk' = IF rest = <<>>
                  THEN [walk EXCEPT !.pc = "done", !.todo = <<>>,
                           !.comp = {},
                           !.assigned = [n \in Nodes |->
                               IF n \in walk.comp THEN @[n] + 1 ELSE @[n]]]
                  ELSE [walk EXCEPT !.q = <<Head(rest)>>,
                           !.visited = @ \cup {Head(rest)},
                           !.comp = {}, !.todo = Tail(rest),
                           !.assigned = [n \in Nodes |->
                               IF n \in walk.comp THEN @[n] + 1 ELSE @[n]]]
    /\ UNCHANGED <<neighbors, last, raised, ops, time, nodes, returned>>

\* remove_node, lines 73-98: no loop of the helper is ever entered; the call
\* returns (no neighbors) or raises TypeError at line 96.
StepRemoveNode(self) ==
    /\ walk.pc = "idle"
    /\ \E s \in {RemoveEdges(Current, self)} :
          /\ neighbors' = s.neighbors
          /\ cc' = s.cc
          /\ heap' = s.heap
    /\ walk' = [NoWalk EXCEPT
                   !.pc = IF RemoveOutcome(Current, self) = "ok"
                          THEN "done" ELSE "raised",
                   !.self = self]
    /\ last' = [op |-> "remove_node", self |-> self, peers |-> {},
                old |-> neighbors[self],
                outcome |-> RemoveOutcome(Current, self)]
    /\ raised' = (RemoveOutcome(Current, self) /= "ok")
    /\ ops' = ops + 1
    /\ time' = Aged
    /\ UNCHANGED <<nodes, returned>>

NextSteps ==
    \/ \E self \in Nodes, peers \in SUBSET Nodes : BeginAddNode(self, peers)
    \/ AddWalkStep
    \/ AddWalkExit
    \/ \E self \in Nodes, new \in SUBSET Nodes : BeginUpdate(self, new)
    \/ BfsStep
    \/ BfsReturn
    \/ \E self \in Nodes : StepRemoveNode(self)

\* The interpreter runs the call in progress: its next statement is always
\* taken (one thread, no suspension).
FairSteps == InitSteps /\ [][NextSteps]_vars /\ WF_vars(NextSteps)

\* C11. Termination: every call of add_node, remove_node or update
\* eventually finishes (returns or raises), whatever the graph.
Termination == <>(walk.pc \in {"done", "raised"})

\* An add_node has finished on a graph where its receiver has a self-loop
\* and lies on a cycle (so a node was enqueued twice before it was visited).
TerminationWitness ==
    /\ walk.pc = "done"
    /\ last.op = "add_node"
    /\ walk.self \in neighbors[walk.self]
    /\ \E a, b \in Nodes \ {walk.self} :
          /\ a /= b
          /\ {a, b} \subseteq neighbors[walk.self]
          /\ b \in neighbors[a]

----------------------------------------------------------------------------
\* Graph.py: a registry of nodes by key.  Key k names the node Node(k), so
\* nodes is the set of keys of Graph.nodes.  A node that is not constructed
\* has no neighbors and no set object of its own yet.

\* The fields of the nodes before any is constructed
NoNodes == State([n \in Nodes |-> {}], [n \in Nodes |-> n], [i \in Ids |-> {}])

\* Node(n) without peers, as a change of the state s (Node.py lines 6-7)
Constructed(s, n) ==
    State([s.neighbors EXCEPT ![n] = NodeInit(n).neighbors],
          [s.cc EXCEPT ![n] = NodeInit(n).cc],
          [s.heap EXCEPT ![NodeInit(n).cc] = NodeInit(n).heap])

\* The node n is dropped: no reference to it is left.
Dropped(s, n) ==
    State([s.neighbors EXCEPT ![n] = {}], s.cc, [s.heap EXCEPT ![s.cc[n]] = {}])

\* Graph.add_node, lines 8-9
GraphAddNodeEffect(s, reg, key) ==
    IF key \in reg THEN s ELSE Constructed(s, key)

\* Variant of GraphAddEdgeEffect: the edge is made by Node.add_node
GraphAddEdgeConnect(s, reg, u, v) ==
    AddEdges(GraphAddNodeEffect(GraphAddNodeEffect(s, reg, u), reg \cup {u}, v),
             u, <<v>>)

\* Graph.add_edge, lines 22-25
GraphAddEdgeEffect(s, reg, u, v) ==
    LET s2 == GraphAddNodeEffect(GraphAddNodeEffect(s, reg, u), reg \cup {u}, v)
        nb == [s2.neighbors EXCEPT ![u] = @ \cup {v}]
    IN  State([nb EXCEPT ![v] = @ \cup {u}], s2.cc, s2.heap)

\* Graph.remove_edge, lines 28-33
GraphRemoveEdgeEffect(s, reg, u, v) ==
    IF u \notin reg \/ v \notin reg THEN s
    ELSE LET nb == [s.neighbors EXCEPT ![u] = @ \ {v}]
         IN  State([nb EXCEPT ![v] = @ \ {u}], s.cc, s.heap)

\* Graph.remove_node, lines 13-19
GraphRemoveNodeEffect(s, reg, key) ==
    IF key \notin reg THEN s
    ELSE Dropped(State([n \in Nodes |->
                           IF n \in s.neighbors[key]
                           THEN s.neighbors[n] \ {key} ELSE s.neighbors[n]],
                       s.cc, s.heap),
                 key)

\* Graph.neighbors, line 37: self.nodes[key] raises KeyError for a key that
\* is not registered; the comprehension reads n.key of each neighbor, and a
\* Node has the attributes MAC, neighbors, cc and time, so the first
\* neighbor raises AttributeError.
GraphNeighborsOutcome(s, reg, key) ==
    IF key \notin reg THEN "KeyError"
    ELSE IF s.neighbors[key] = {} THEN "ok"
    ELSE "AttributeError"

\* What a Graph call leaves behind, apart from its value
GraphCall(op, u, v, s, reg, outcome, value) ==
    /\ ops < MaxOps
    /\ ops' = ops + 1
    /\ neighbors' = s.neighbors
    /\ cc' = s.cc
    /\ heap' = s.heap
    /\ nodes' = reg
    /\ last' = [op |-> op, self |-> u, peers |-> v, old |-> neighbors[u],
                outcome |-> outcome]
    /\ raised' = (raised \/ outcome /= "ok")
    /\ returned' = value
    /\ time' = [n \in Nodes |-> IF n \in reg \ nodes THEN "now" ELSE "earlier"]
    /\ UNCHANGED walk

Graph_add_node(key) ==
    \E s \in {GraphAddNodeEffect(Current, nodes, key)} :
        GraphCall("Graph.add_node", key, {}, s, nodes \cup {key}, "ok",
                  <<"Node", key>>)

Graph_remove_node(key) ==
    \E s \in {GraphRemoveNodeEffect(Current, nodes, key)} :
        GraphCall("Graph.remove_node", key, {}, s, nodes \ {key}, "ok",
                  <<"None">>)

Graph_add_edge(u, v) ==
    \E s \in {GraphAddEdgeEffect(Current, nodes, u, v)} :
        GraphCall("Graph.add_edge", u, {v}, s, nodes \cup {u, v}, "ok",
                  <<"None">>)

Graph_remove_edge(u, v) ==
    \E s \in {GraphRemoveEdgeEffect(Current, nodes, u, v)} :
        GraphCall("Graph.remove_edge", u, {v}, s, nodes, "ok",
                  <<"bool", {u, v} \subseteq nodes>>)

Graph_neighbors(key) ==
    \E outcome \in {GraphNeighborsOutcome(Current, nodes, key)} :
        GraphCall("Graph.neighbors", key, {}, Current, nodes, outcome,
                  IF outcome = "ok" THEN <<"list", <<>>>> ELSE <<"None">>)

\* g = Graph(), then any call on g with keys that name the nodes
InitGraph ==
    /\ neighbors = NoNodes.neighbors
    /\ cc = NoNodes.cc
    /\ heap = NoNodes.heap
    /\ last = [op |-> "none", self |-> 0, peers |-> {}, old |-> {},
               outcome |-> "ok"]
    /\ raised = FALSE
    /\ ops = 0
    /\ time = Aged
    /\ nodes = {}
    /\ returned = <<"None">>
    /\ walk = NoWalk

NextGraph ==
    \/ \E key \in Nodes : Graph_add_node(key)
    \/ \E key \in Nodes : Graph_remove_node(key)
    \/ \E u, v \in Nodes : Graph_add_edge(u, v)
    \/ \E u, v \in Nodes : Graph_remove_edge(u, v)
    \/ \E key \in Nodes : Graph_neighbors(key)

SpecGraph == InitGraph /\ [][NextGraph]_vars

\* C12. Neighbor projection: for a registered key, Graph.neighbors(key)
\* raises nothing and returns a list whose elements are exactly the
\* addresses of the nodes in that node's neighbors set.
NeighborProjection ==
    (last.op = "Graph.neighbors" /\ last.self \in nodes) =>
        /\ last.outcome = "ok"
        /\ returned[1] = "list"
        /\ {returned[2][i] : i \in 1..Len(returned[2])} = neighbors[last.self]

\* C13. Last-modified: a call sets the time field of every node it affects,
\* that is every node whose neighbors set or component members it changes,
\* so that each time field is the time of the most recent such call.
LastModified ==
    [][\A n \in Nodes :
          (neighbors'[n] /= neighbors[n] \/ heap'[cc'[n]] /= heap[cc[n]])
              => time'[n] = "now"]_vars

----------------------------------------------------------------------------
\* The program with its nodes constructed by the run: Node(address) or
\* Node(address, peers) with peers constructed before, and calls on the
\* nodes constructed so far.  Addresses are opaque, so the k-th node
\* constructed is node k.

\* Node.__init__, lines 6-9: the fields, then add_node if peers were given
InitEffect(s, n, peers) ==
    IF peers = {} THEN Constructed(s, n)
    ELSE AddNodeEffect(Constructed(s, n), n, peers)

Node_init(n, peers) ==
    /\ nodes /= Nodes
    /\ n = Min(Nodes \ nodes)
    /\ peers \subseteq nodes
    /\ \E s \in {InitEffect(Current, n, peers)} :
          /\ neighbors' = s.neighbors
          /\ cc' = s.cc
          /\ heap' = s.heap
    /\ nodes' = nodes \cup {n}
    /\ last' = [op |-> "Node", self |-> n, peers |-> peers, old |-> {},
                outcome |-> "ok"]
    /\ time' = [Aged EXCEPT ![n] = "now"]
    /\ UNCHANGED <<raised, ops, returned, walk>>

InitBuild ==
    /\ neighbors = NoNodes.neighbors
    /\ cc = NoNodes.cc
    /\ heap = NoNodes.heap
    /\ last = [op |-> "none", self |-> 0, peers |-> {}, old |-> {},
               outcome |-> "ok"]
    /\ raised = FALSE
    /\ ops = 0
    /\ time = Aged
    /\ nodes = {}
    /\ returned = <<"None">>
    /\ walk = NoWalk

NextBuild ==
    \/ \E n \in Nodes, peers \in SUBSET Nodes : Node_init(n, peers)
    \/ \E self \in Nodes, peers \in SUBSET Nodes : add_node(self, peers)
    \/ \E self \in Nodes, new \in SUBSET Nodes : update(self, new)
    \/ \E self \in Nodes : remove_node(self)

SpecBuild == InitBuild /\ [][NextBuild]_vars

\* C14. Construction: right after a node is constructed, with or without
\* peers, the invariants hold for it: its edges are symmetric, and its
\* component set has exactly the nodes reachable from it as members and is
\* shared with exactly those nodes.
ConstructionInvariants ==
    last.op = "Node" =>
        \E n \in {last.self}, R \in {Reachable(neighbors, last.self)} :
            /\ \A a \in nodes : (a \in neighbors[n]) <=> (n \in neighbors[a])
            /\ Members(n) = R
            /\ \A a \in nodes : (cc[a] = cc[n]) <=> (a \in R)

\* C15. Defensive re-derivation in connect: after add_node on self, the set
\* held by every node the traversal visited (the nodes reachable from self)
\* has exactly the visited nodes as members, whatever the sets held before.
ConnectRederivation ==
    last.op = "add_node" =>
        \E R \in {Reachable(neighbors, last.self)} :
            \A n \in R : Members(n) = R

UpdateFrame ==
    [][last'.op = "update"
       => \A self \in {last'.self}, S \in {last'.peers} :
             /\ neighbors'[self] = S
             /\ \A x \in Nodes \ {self} : (self \in neighbors'[x]) <=> (x \in S)
             /\ \A x, y \in Nodes \ {self} :
                   (y \in neighbors'[x]) <=> (y \in neighbors[x])]_vars

\* An update has removed an edge of its receiver and added another while two
\* other nodes are neighbors of each other.
UpdateFrameWitness ==
    /\ last.op = "update"
    /\ last.old \ last.peers /= {}
    /\ last.peers \ last.old /= {}
    /\ \E x, y \in Nodes \ {last.self} : x /= y /\ y \in neighbors[x]

\* C18. Visited-set sharing in update: during one update call every node
\* has its cc assigned at most once, by the traversal that reached it, whose
\* set it keeps; when the call returns, self and every removed neighbor have
\* been assigned exactly once, so none was traversed a second time.
VisitedSharing ==
    last.op = "update" =>
        /\ \A n \in Nodes :
              /\ walk.assigned[n] <= 1
              /\ walk.assigned[n] = 1 => (n \in walk.visited /\ n \in Members(n))
        /\ walk.pc = "done" =>
              \A n \in walk.removed \cup {walk.self} : walk.assigned[n] = 1

\* An update has returned with a removed neighbor holding the set of the
\* traversal from self or from another removed neighbor, which reached it
\* over an edge that is left.
VisitedSharingWitness ==
    /\ last.op = "update"
    /\ walk.pc = "done"
    /\ \E r \in walk.removed \ {walk.self} :
          \E x \in (walk.removed \cup {walk.self}) \ {r} :
              /\ cc[r] = cc[x]
              /\ walk.assigned[r] = 1

\* C19. Connect keeps the initiator's set object: during and after add_node
\* on self, self.cc is the set object it was when the call began, with at
\* least the members it had; every node that held this object when the call
\* began still holds it; and when the call returns every node reachable from
\* self holds it.
ConnectKeepsObject ==
    last.op = "add_node" =>
        /\ cc[walk.self] = walk.object
        /\ walk.members \subseteq heap[walk.object]
        /\ \A n \in walk.sharers : cc[n] = walk.object
        /\ walk.pc = "done" =>
              \A n \in Reachable(neighbors, walk.self) : cc[n] = walk.object

\* An add_node has returned: a node that shared the receiver's set before
\* the call and a peer that did not both hold the receiver's set object.
ConnectKeepsObjectWitness ==
    /\ last.op = "add_node"
    /\ walk.pc = "done"
    /\ \E n \in walk.sharers \ ({walk.self} \cup last.peers) :
          cc[n] = walk.object
    /\ \E p \in last.peers \ walk.sharers :
          /\ cc[p] = walk.object
          /\ p \in heap[walk.object]

\* C20. The adjacency wrapper does no component tracking: Graph.add_edge,
\* Graph.remove_edge and Graph.remove_node leave the cc of every node that
\* is registered before and after the call as it was (same set object, same
\* members), and after Graph.add_edge(u, v) on two keys that were not
\* registered the two nodes are neighbors, each with its own set {itself}.
WrapperNoTracking ==
    [][last'.op \in {"Graph.add_edge", "Graph.remove_edge", "Graph.remove_node"}
       => /\ \A n \in nodes \cap nodes' :
                /\ cc'[n] = cc[n]
                /\ heap'[cc'[n]] = heap[cc[n]]
          /\ \A u \in {last'.self} : \A v \in last'.peers :
                (last'.op = "Graph.add_edge" /\ u /= v /\ {u, v} \cap nodes = {})
                    => /\ v \in neighbors'[u]
                       /\ u \in neighbors'[v]
                       /\ cc'[u] /= cc'[v]
                       /\ heap'[cc'[u]] = {u}
                       /\ heap'[cc'[v]] = {v}]_vars

\* Graph.add_edge has just created both of its nodes and made them
\* neighbors, each in a component set of its own.
WrapperNoTrackingWitness ==
    /\ last.op = "Graph.add_edge"
    /\ \E v \in last.peers \ {last.self} :
          /\ time[last.self] = "now"
          /\ time[v] = "now"
          /\ v \in neighbors[last.self]
          /\ cc[v] /= cc[last.self]
          /\ Members(v) = {v}

====
